---- MODULE Spec2Model ----
(***************************************************************************)
(* State-machine model of the timetable generator in src/krutarth.py:      *)
(* the availability oracle, the occupancy queries, the load calculator,    *)
(* the two-pass slot assignment engine (generate_timetable) and the        *)
(* conflict reporter (check_timetable_conflicts).                          *)
(***************************************************************************)
EXTENDS Integers, Sequences, FiniteSets, TLC

(***************************************************************************)
(* Bounds of the model.                                                    *)
(***************************************************************************)
\* number of slots of the default grid used by the engine runs
MaxSlots == 3

(***************************************************************************)
(* Texts.  Python compares str values code point by code point, so a time  *)
(* such as "9:55" is modelled as the sequence of its code points.          *)
(***************************************************************************)
Digit(d) == 48 + d

Colon == 58

\* the text of a time as the program's data writes it: hours are not padded
\* ("8:05", "10:45"), minutes always have two digits
TimeText(h, m) ==
    (IF h >= 10 THEN <<Digit(h \div 10)>> ELSE <<>>)
        \o <<Digit(h % 10), Colon, Digit(m \div 10), Digit(m % 10)>>

RECURSIVE StrLess(_, _)
\* Python's a < b on two str values
StrLess(a, b) ==
    IF b = <<>> THEN FALSE
    ELSE IF a = <<>> THEN TRUE
    ELSE IF Head(a) # Head(b) THEN Head(a) < Head(b)
    ELSE StrLess(Tail(a), Tail(b))

\* a time slot label "start-end"; split("-") yields the two texts
Slot(h1, m1, h2, m2) == [start |-> TimeText(h1, m1), end |-> TimeText(h2, m2)]

\* Python's None
None == "<None>"

\* self.days
Days == <<"Monday", "Tuesday", "Wednesday", "Thursday", "Friday", "Saturday">>

DaySet == {Days[i] : i \in 1..Len(Days)}

\* the default slot grid of load_default_data
DefaultTimeSlots ==
    << Slot(8, 5, 8, 55), Slot(9, 0, 9, 50), Slot(9, 55, 10, 45),
       Slot(10, 50, 11, 40), Slot(11, 45, 12, 35), Slot(12, 40, 13, 30),
       Slot(13, 35, 14, 25), Slot(14, 30, 15, 15) >>

\* faculty windows of load_default_data (one entry per distinct window) and
\* two faculties saved through the faculty form with an early window, EM for
\* the first three days of the week only
DefaultFaculties ==
    [ DPP |-> [start |-> TimeText(8, 0),   end |-> TimeText(15, 15), days |-> DaySet],
      PG  |-> [start |-> TimeText(9, 0),   end |-> TimeText(15, 15), days |-> DaySet],
      DAA |-> [start |-> TimeText(11, 45), end |-> TimeText(12, 35),
               days |-> {"Tuesday", "Wednesday", "Friday", "Saturday"}],
      MJ  |-> [start |-> TimeText(9, 30),  end |-> TimeText(11, 45), days |-> DaySet],
      SP  |-> [start |-> TimeText(8, 0),   end |-> TimeText(11, 0),
               days |-> {"Monday", "Tuesday", "Wednesday"}],
      PK  |-> [start |-> TimeText(8, 0),   end |-> TimeText(10, 0),  days |-> DaySet],
      AN  |-> [start |-> TimeText(9, 55),  end |-> TimeText(11, 30), days |-> DaySet],
      EB  |-> [start |-> TimeText(8, 0),   end |-> TimeText(9, 50),  days |-> DaySet],
      EM  |-> [start |-> TimeText(8, 0),   end |-> TimeText(9, 50),
               days |-> {"Monday", "Tuesday", "Wednesday"}] ]


\* self.classrooms and self.labs of load_default_data
DefaultClassrooms == <<"101", "207", "208", "307">>

DefaultLabs == <<"Lab-6", "Lab-7", "Lab-8", "Lab-113", "Lab-205">>

(***************************************************************************)
(* State.                                                                  *)
(***************************************************************************)
VARIABLES
    \* configuration held by the application object
    subjects,              \* self.subjects, as the sequence of its entries in dict order
    faculties,             \* self.faculties: name -> [start, end, days]
    time_slots,            \* self.time_slots
    classrooms,            \* self.classrooms
    labs,                  \* self.labs
    working_days,          \* self.working_days: day -> BOOLEAN
    max_faculty_lectures,  \* self.max_faculty_lectures
    semester_duration,     \* self.semester_duration
    timetable_semester,    \* text of self.timetable_semester
    timetable_division,    \* text of self.timetable_division
    \* results held by the application object
    current_timetable,     \* self.current_timetable
    conflicts_tree,        \* rows of self.conflicts_tree
    last_call,             \* the handler that finished last, with ":error" when it reported one
    history,               \* self.history: [defined, value], defined when the attribute exists
    history_position,      \* self.history_position: [defined, value]
    \* the running generate_timetable call
    pc,                    \* position in generate_timetable
    timetable,             \* local timetable
    subject_entries,       \* local subject_entries, sorted
    target_semester,       \* local target_semester
    target_division,       \* local target_division
    entry,                 \* index of the loop over subject_entries
    max_lectures_per_day,  \* local max_lectures_per_day
    assignments_made,      \* local assignments_made
    target_days,           \* local target_days (lab pass) / working_days (theory pass)
    di,                    \* index of the loop over target_days
    other_days,            \* the days of the retry loop of the lab pass
    ri,                    \* index of the retry loop
    \* the last call of a pure function: [fn, args, ret]
    probe

cfgVars == << subjects, faculties, time_slots, classrooms, labs, working_days,
              max_faculty_lectures, semester_duration, timetable_semester,
              timetable_division >>

runVars == << pc, timetable, subject_entries, target_semester, target_division,
              entry, max_lectures_per_day, assignments_made, target_days, di,
              other_days, ri >>

histVars == << history, history_position >>

vars == << cfgVars, current_timetable, conflicts_tree, last_call, histVars, runVars, probe >>

(***************************************************************************)
(* Sequence helpers.                                                       *)
(***************************************************************************)
SeqToSet(s) == {s[i] : i \in 1..Len(s)}

Prefix(s, n) == SubSeq(s, 1, IF n < Len(s) THEN n ELSE Len(s))

RECURSIVE SumSeq(_)
SumSeq(s) == IF s = <<>> THEN 0 ELSE Head(s) + SumSeq(Tail(s))

RECURSIVE Flatten(_)
\* the concatenation of a sequence of sequences
Flatten(ss) == IF ss = <<>> THEN <<>> ELSE Head(ss) \o Flatten(Tail(ss))

(***************************************************************************)
(* The schedule.  A timetable is the nested dict                           *)
(* timetable[semester][division][day][time_slot]; grid lists its           *)
(* (semester, division) pairs in dict order and cell holds the cells.      *)
(***************************************************************************)
\* variant of EmptyCell: the cell is initialised with the texts the display shows
\* for an empty cell
EmptyCell_Placeholders == [subject |-> "Free", faculty |-> "-", room |-> "-", is_lab |-> FALSE]

\* the cell initialize_timetable_structure writes
EmptyCell == [subject |-> None, faculty |-> None, room |-> None, is_lab |-> FALSE]

\* the cell the engine writes
Session(subject, faculty, room) == [subject |-> subject, faculty |-> faculty, room |-> room]

\* day in timetable[s][d] and time_slot in timetable[s][d][day]
HasCell(tt, s, d, day, time_slot) == <<s, d, day, time_slot>> \in DOMAIN tt.cell

\* self.current_timetable = None
NoTimetable == [grid |-> <<>>, cell |-> <<>>, none |-> TRUE]

\* Python truthiness of a nested dict (or None)
Truthy(tt) == tt.grid # <<>>

\* [d for d in self.days if self.working_days[d].get()]
WorkingDayList == SelectSeq(Days, LAMBDA d : working_days[d])

RECURSIVE Dedup(_)
\* the distinct elements of a sequence in order of first appearance
Dedup(s) ==
    IF s = <<>> THEN <<>>
    ELSE LET r == Dedup(Prefix(s, Len(s) - 1))
             x == s[Len(s)]
         IN  IF x \in SeqToSet(r) THEN r ELSE Append(r, x)

\* the (semester, division) pairs of self.subjects in dict order
CatalogGrid == Dedup([i \in 1..Len(subjects) |-> <<subjects[i].semester, subjects[i].division>>])

\* variant of initialize_timetable_structure: a cell for every day of the week,
\* enabled or not
initialize_timetable_structure_AllDays ==
    [ grid |-> CatalogGrid,
      cell |-> [k \in { <<g[1], g[2], day, ts>> :
                          g \in SeqToSet(CatalogGrid),
                          day \in DaySet,
                          ts \in SeqToSet(time_slots) } |-> EmptyCell] ]

initialize_timetable_structure ==
    [ grid |-> CatalogGrid,
      cell |-> [k \in { <<g[1], g[2], day, ts>> :
                          g \in SeqToSet(CatalogGrid),
                          day \in SeqToSet(WorkingDayList),
                          ts \in SeqToSet(time_slots) } |-> EmptyCell] ]

(***************************************************************************)
(* Load calculator.                                                        *)
(***************************************************************************)
\* variant of PyRound: integer division in place of round
PyRound_Truncating(a, b) == a \div b

\* Python's round(a / b) for integers a >= 0, b > 0: the nearest integer,
\* a tie going to the even one
PyRound(a, b) ==
    LET q == a \div b
        r == a % b
    IN  IF 2 * r < b THEN q
        ELSE IF 2 * r > b THEN q + 1
        ELSE IF q % 2 = 0 THEN q ELSE q + 1

Max(a, b) == IF a >= b THEN a ELSE b

Min(a, b) == IF a <= b THEN a ELSE b

\* lectures_per_week of calculate_weekly_load
lectures_per_week(total_hours, duration) == Max(1, PyRound(total_hours, duration))

\* calculate_weekly_load: one entry per catalog entry, in dict order
calculate_weekly_load ==
    [ i \in 1..Len(subjects) |->
        [ semester |-> subjects[i].semester,
          division |-> subjects[i].division,
          subject  |-> subjects[i].subject,
          lectures_per_week |-> lectures_per_week(subjects[i].hours, semester_duration),
          faculty  |-> subjects[i].faculty,
          type     |-> subjects[i].type ] ]

\* get_faculty_total_load
get_faculty_total_load(faculty) ==
    SumSeq([i \in 1..Len(subjects) |->
              IF subjects[i].faculty = faculty THEN subjects[i].hours ELSE 0])

\* the total load above which the daily cap is replaced
OverloadThreshold == 216

\* the daily cap of a faculty above the threshold
OverloadCap == 5

\* variant of DailyCap: the threshold itself already counts as overload
DailyCap_AtThreshold(faculty) ==
    IF get_faculty_total_load(faculty) >= OverloadThreshold
    THEN OverloadCap
    ELSE max_faculty_lectures

\* max_lectures_per_day as generate_timetable and check_timetable_conflicts compute it
DailyCap(faculty) ==
    IF get_faculty_total_load(faculty) > OverloadThreshold
    THEN OverloadCap
    ELSE max_faculty_lectures

(***************************************************************************)
(* Availability oracle.                                                    *)
(***************************************************************************)
check_faculty_availability(faculty, day, time_slot) ==
    IF faculty \notin DOMAIN faculties THEN FALSE
    ELSE IF day \notin faculties[faculty].days THEN FALSE
    ELSE IF StrLess(time_slot.start, faculties[faculty].start)
            \/ StrLess(faculties[faculty].end, time_slot.end) THEN FALSE
    ELSE TRUE

(***************************************************************************)
(* Occupancy index.                                                        *)
(***************************************************************************)
\* the keys of the cells of a day, over all semesters and divisions
DayKeys(tt, day) == {k \in DOMAIN tt.cell : k[3] = day}

\* the keys of the cells of a (day, time_slot), over all semesters and divisions
SlotKeys(tt, day, time_slot) == {k \in DOMAIN tt.cell : k[3] = day /\ k[4] = time_slot}

count_faculty_assignments(tt, faculty, day) ==
    Cardinality({k \in DayKeys(tt, day) : tt.cell[k].faculty = faculty})

check_faculty_conflict(tt, faculty, day, time_slot) ==
    \E k \in SlotKeys(tt, day, time_slot) : tt.cell[k].faculty = faculty

\* Python truthiness of a str or None
TruthyText(x) == x # None /\ x # ""

find_available_rooms(tt, day, time_slot, room_type) ==
    LET rooms == IF room_type = "classroom" THEN classrooms ELSE labs
        used_rooms == { tt.cell[k].room : k \in {j \in SlotKeys(tt, day, time_slot) :
                                                   TruthyText(tt.cell[j].room)} }
    IN  SelectSeq(rooms, LAMBDA room : room \notin used_rooms)

RECURSIVE IntSeqLess(_, _)
\* Python's a < b on two tuples of integers
IntSeqLess(a, b) ==
    IF b = <<>> THEN FALSE
    ELSE IF a = <<>> THEN TRUE
    ELSE IF Head(a) # Head(b) THEN Head(a) < Head(b)
    ELSE IntSeqLess(Tail(a), Tail(b))

RECURSIVE StableSort(_)
\* Python's stable sort of a sequence of [key, value] records by ascending key:
\* elements with equal keys keep their order
StableSort(s) ==
    IF s = <<>> THEN <<>>
    ELSE LET r == StableSort(Prefix(s, Len(s) - 1))
             x == s[Len(s)]
             \* x goes after every element whose key is not greater than its own
             n == Cardinality({i \in 1..Len(r) : ~IntSeqLess(x.key, r[i].key)})
         IN  SubSeq(r, 1, n) \o <<x>> \o SubSeq(r, n + 1, Len(r))

Values(s) == [i \in 1..Len(s) |-> s[i].value]

\* a variant that orders slots with equal counts by their position in the grid
get_preferred_slots_GridOrder(tt, semester, division, subject) ==
    LET met == Flatten([d \in 1..Len(Days) |->
                  SelectSeq(time_slots, LAMBDA ts :
                      /\ HasCell(tt, semester, division, Days[d], ts)
                      /\ tt.cell[<<semester, division, Days[d], ts>>].subject = subject)])
        existing_slots == SelectSeq(time_slots, LAMBDA ts : ts \in SeqToSet(met))
        count(ts) == Cardinality({i \in 1..Len(met) : met[i] = ts})
    IN  Values(StableSort([i \in 1..Len(existing_slots) |->
                             [key |-> <<0 - count(existing_slots[i])>>,
                              value |-> existing_slots[i]]]))

get_preferred_slots(tt, semester, division, subject) ==
    LET \* the slots at which the subject is met, day by day, slot by slot
        met == Flatten([d \in 1..Len(Days) |->
                  SelectSeq(time_slots, LAMBDA ts :
                      /\ HasCell(tt, semester, division, Days[d], ts)
                      /\ tt.cell[<<semester, division, Days[d], ts>>].subject = subject)])
        existing_slots == Dedup(met)
        count(ts) == Cardinality({i \in 1..Len(met) : met[i] = ts})
        \* sorted(..., key=count, reverse=True) keeps equal counts in dict order
        preferred_slots ==
            StableSort([i \in 1..Len(existing_slots) |->
                          [key |-> <<0 - count(existing_slots[i])>>,
                           value |-> existing_slots[i]]])
    IN  Values(preferred_slots)

(***************************************************************************)
(* Conflict reporter: the rows one call of check_timetable_conflicts       *)
(* inserts into the conflicts tree.                                        *)
(***************************************************************************)
Row(type, details, severity) == [type |-> type, details |-> details, severity |-> severity]

\* the (semester, division) pairs of a schedule that have a cell at (day, time_slot)
GridAt(tt, day, time_slot) ==
    SelectSeq(tt.grid, LAMBDA g : HasCell(tt, g[1], g[2], day, time_slot))

\* variant of DoubleBookingRows: a row for every cell that shares its value with
\* another cell, the first one included
DoubleBookingRows_EveryCell(tt, day, time_slot, field, type, what) ==
    LET g == GridAt(tt, day, time_slot)
        value(k) == tt.cell[<<g[k][1], g[k][2], day, time_slot>>][field]
        hit == SelectSeq([k \in 1..Len(g) |-> k], LAMBDA k :
                  /\ TruthyText(value(k))
                  /\ \E j \in 1..Len(g) : j # k /\ value(j) = value(k))
    IN  [n \in 1..Len(hit) |->
            Row(type, <<what, value(hit[n]), day, time_slot>>, "High")]

\* the scan of one (day, time_slot) for a field ("faculty" or "room"): a row for
\* every cell whose value was already met at an earlier cell of the scan
DoubleBookingRows(tt, day, time_slot, field, type, what) ==
    LET g == GridAt(tt, day, time_slot)
        value(k) == tt.cell[<<g[k][1], g[k][2], day, time_slot>>][field]
        hit == SelectSeq([k \in 1..Len(g) |-> k], LAMBDA k :
                  /\ TruthyText(value(k))
                  /\ \E j \in 1..(k - 1) : value(j) = value(k))
    IN  [n \in 1..Len(hit) |->
            Row(type, <<what, value(hit[n]), day, time_slot>>, "High")]

ScanDoubleBooking(tt, field, type, what) ==
    Flatten([d \in 1..Len(WorkingDayList) |->
        Flatten([t \in 1..Len(time_slots) |->
            DoubleBookingRows(tt, WorkingDayList[d], time_slots[t], field, type, what)])])

\* the faculty of the cells of a day in scan order: by (semester, division),
\* then by slot
FacultyOfDay(tt, day) ==
    Flatten([g \in 1..Len(tt.grid) |->
        LET here == SelectSeq(time_slots, LAMBDA ts :
                        HasCell(tt, tt.grid[g][1], tt.grid[g][2], day, ts))
        IN  [t \in 1..Len(here) |->
                tt.cell[<<tt.grid[g][1], tt.grid[g][2], day, here[t]>>].faculty]])

\* variant of OverloadRows: a count equal to the cap is already reported
OverloadRows_AtCap(tt, day) ==
    LET named == SelectSeq(FacultyOfDay(tt, day), TruthyText)
        faculty_counts == Dedup(named)
        count(f) == Cardinality({i \in 1..Len(named) : named[i] = f})
        over == SelectSeq(faculty_counts, LAMBDA f : count(f) >= DailyCap(f))
    IN  [n \in 1..Len(over) |->
            Row("Faculty Overload", <<over[n], count(over[n]), day, DailyCap(over[n])>>,
                "Medium")]

\* the overload check of one day: a row for every faculty whose number of cells
\* on the day exceeds its daily cap
OverloadRows(tt, day) ==
    LET named == SelectSeq(FacultyOfDay(tt, day), TruthyText)
        faculty_counts == Dedup(named)
        count(f) == Cardinality({i \in 1..Len(named) : named[i] = f})
        over == SelectSeq(faculty_counts, LAMBDA f : count(f) > DailyCap(f))
    IN  [n \in 1..Len(over) |->
            Row("Faculty Overload", <<over[n], count(over[n]), day, DailyCap(over[n])>>,
                "Medium")]

ScanOverload(tt) ==
    Flatten([d \in 1..Len(WorkingDayList) |-> OverloadRows(tt, WorkingDayList[d])])

\* the rows check_timetable_conflicts inserts, in order
ConflictRows(tt) ==
    ScanDoubleBooking(tt, "faculty", "Faculty Double-Booking", "Faculty")
        \o ScanDoubleBooking(tt, "room", "Room Double-Booking", "Room")
        \o ScanOverload(tt)

\* the conflicts tree after check_timetable_conflicts
check_timetable_conflicts(tree, tt) ==
    IF ~Truthy(tt) THEN tree ELSE tree \o ConflictRows(tt)

\* the conflicts tree after refresh_analytics: cleared, then one scan
refresh_analytics(tree, tt) ==
    IF ~Truthy(tt) THEN tree ELSE check_timetable_conflicts(<<>>, tt)

(***************************************************************************)
(* Slot assignment engine: generate_timetable.                             *)
(***************************************************************************)
\* int(text) for the texts of the semester selection; 0 stands for the
\* ValueError that leaves target_semester None
IntOf(text) ==
    CASE text = "2" -> 2
      [] text = "4" -> 4
      [] text = "6" -> 6
      [] OTHER -> 0

\* variant of SortedEntries: the entries are left in catalog order
SortedEntries_CatalogOrder == calculate_weekly_load

\* subject_entries after subject_entries.sort(key=...): labs first, then by
\* descending lectures_per_week
SortedEntries ==
    LET weekly_load == calculate_weekly_load
    IN  Values(StableSort([i \in 1..Len(weekly_load) |->
            [key |-> << IF weekly_load[i].type = "Lab" THEN 0 ELSE 1,
                        0 - weekly_load[i].lectures_per_week >>,
             value |-> weekly_load[i]]]))

\* the two continue tests at the top of both passes
FilteredOut(e) ==
    \/ target_semester # 0 /\ e.semester # target_semester
    \/ target_division # "All" /\ e.division # target_division /\ TruthyText(target_division)

\* the continuation label of the second cell of a lab session
Cont(subject) == subject \o " (cont.)"

\* the test the engine applies to a cell before writing into it
IsFree(cell) == cell.subject = "Free"

\* random.sample(population, k): every ordered choice of k distinct elements
Samples(population, k) ==
    { t \in [1..k -> SeqToSet(population)] : \A i, j \in 1..k : i # j => t[i] # t[j] }

\* the lab rooms free at both slots of a pair
CommonLabs(tt, day, i) ==
    LET available_labs  == find_available_rooms(tt, day, time_slots[i], "lab")
        available_labs2 == find_available_rooms(tt, day, time_slots[i + 1], "lab")
    IN  SelectSeq(available_labs, LAMBDA lab : lab \in SeqToSet(available_labs2))

\* whether the pair (time_slots[i], time_slots[i + 1]) takes a lab session
LabPairUsable(tt, semester, division, day, i, faculty) ==
    /\ IsFree(tt.cell[<<semester, division, day, time_slots[i]>>])
    /\ IsFree(tt.cell[<<semester, division, day, time_slots[i + 1]>>])
    /\ ~check_faculty_conflict(tt, faculty, day, time_slots[i])
    /\ ~check_faculty_conflict(tt, faculty, day, time_slots[i + 1])
    /\ CommonLabs(tt, day, i) # <<>>

\* the first usable pair of the day, 0 when there is none
FirstLabPair(tt, semester, division, day, faculty) ==
    LET usable == {i \in 1..(Len(time_slots) - 1) :
                      LabPairUsable(tt, semester, division, day, i, faculty)}
    IN  IF usable = {} THEN 0 ELSE CHOOSE i \in usable : \A j \in usable : i <= j

\* the timetable after a lab session is written at pair i
WriteLab(tt, semester, division, day, i, subject, faculty, lab_room) ==
    [tt EXCEPT !.cell =
        [k \in DOMAIN tt.cell |->
            IF k = <<semester, division, day, time_slots[i]>>
            THEN Session(subject, faculty, lab_room)
            ELSE IF k = <<semester, division, day, time_slots[i + 1]>>
            THEN Session(Cont(subject), faculty, lab_room)
            ELSE tt.cell[k]]]

\* whether a slot takes a theory session
TheorySlotUsable(tt, semester, division, day, time_slot, faculty) ==
    /\ HasCell(tt, semester, division, day, time_slot)
    /\ IsFree(tt.cell[<<semester, division, day, time_slot>>])
    /\ ~check_faculty_conflict(tt, faculty, day, time_slot)
    /\ find_available_rooms(tt, day, time_slot, "classroom") # <<>>

\* preferred slots first, then the other slots in grid order
CandidateSlots(tt, semester, division, subject) ==
    LET preferred_slots == get_preferred_slots(tt, semester, division, subject)
    IN  preferred_slots
            \o SelectSeq(time_slots, LAMBDA ts : ts \notin SeqToSet(preferred_slots))

\* the index in all_slots of the first usable slot of the day, 0 when there is none
FirstTheorySlot(tt, semester, division, day, all_slots, faculty) ==
    LET usable == {n \in 1..Len(all_slots) :
                      TheorySlotUsable(tt, semester, division, day, all_slots[n], faculty)}
    IN  IF usable = {} THEN 0 ELSE CHOOSE n \in usable : \A m \in usable : n <= m

WriteTheory(tt, semester, division, day, time_slot, subject, faculty, classroom) ==
    [tt EXCEPT !.cell[<<semester, division, day, time_slot>>] =
        Session(subject, faculty, classroom)]

\* the two tests that reject a day before its slots are scanned
DayRejected(tt, faculty, day, cap) ==
    \/ ~check_faculty_availability(faculty, day, time_slots[1])
    \/ count_faculty_assignments(tt, faculty, day) >= cap

\* the locals of generate_timetable while no call is running
IdleRun ==
    /\ pc = "idle"
    /\ timetable = NoTimetable
    /\ subject_entries = <<>>
    /\ target_semester = 0
    /\ target_division = None
    /\ entry = 0
    /\ max_lectures_per_day = 0
    /\ assignments_made = 0
    /\ target_days = <<>>
    /\ di = 0
    /\ other_days = <<>>
    /\ ri = 0

\* the call returns: its locals are gone
Return ==
    /\ pc' = "idle"
    /\ timetable' = NoTimetable
    /\ subject_entries' = <<>>
    /\ target_semester' = 0
    /\ target_division' = None
    /\ entry' = 0
    /\ max_lectures_per_day' = 0
    /\ assignments_made' = 0
    /\ target_days' = <<>>
    /\ di' = 0
    /\ other_days' = <<>>
    /\ ri' = 0

\* generate_timetable up to the first pass: structure, weekly load, filter, sort
GenerateStart ==
    /\ pc = "idle"
    /\ pc' = "lab"
    /\ timetable' = initialize_timetable_structure
    /\ subject_entries' = SortedEntries
    /\ target_semester' = IntOf(timetable_semester)
    /\ target_division' = IF IntOf(timetable_semester) = 0 THEN None ELSE timetable_division
    /\ entry' = 1
    /\ UNCHANGED << max_lectures_per_day, assignments_made, target_days, di, other_days, ri >>
    /\ UNCHANGED << cfgVars, histVars, current_timetable, conflicts_tree, last_call, probe >>

\* first pass, one iteration of the loop over subject_entries up to the loop over
\* target_days
LabSubject ==
    /\ pc = "lab"
    /\ IF entry > Len(subject_entries)
       THEN /\ pc' = "theory"
            /\ entry' = 1
            /\ UNCHANGED << max_lectures_per_day, assignments_made, target_days, di >>
       ELSE IF FilteredOut(subject_entries[entry]) \/ subject_entries[entry].type # "Lab"
       THEN /\ entry' = entry + 1
            /\ UNCHANGED << pc, max_lectures_per_day, assignments_made, target_days, di >>
       ELSE LET e == subject_entries[entry]
                days_needed == Min(e.lectures_per_week, Len(WorkingDayList))
            IN  \E sample \in Samples(WorkingDayList, days_needed) :
                    /\ pc' = "lab_day"
                    /\ max_lectures_per_day' = DailyCap(e.faculty)
                    /\ assignments_made' = 0
                    /\ target_days' = sample
                    /\ di' = 1
                    /\ UNCHANGED entry
    /\ UNCHANGED << timetable, subject_entries, target_semester, target_division,
                    other_days, ri >>
    /\ UNCHANGED << cfgVars, histVars, current_timetable, conflicts_tree, last_call, probe >>

\* first pass, one iteration of the loop over target_days
LabDay ==
    /\ pc = "lab_day"
    /\ IF di > Len(target_days)
       THEN /\ pc' = "lab"
            /\ entry' = entry + 1
            /\ UNCHANGED << timetable, assignments_made, di, other_days, ri >>
       ELSE /\ time_slots # <<>>
            /\ LET e == subject_entries[entry]
                   day == target_days[di]
                   i == IF assignments_made >= e.lectures_per_week THEN 0
                        ELSE FirstLabPair(timetable, e.semester, e.division, day, e.faculty)
               IN  IF DayRejected(timetable, e.faculty, day, max_lectures_per_day)
                   THEN /\ di' = di + 1
                        /\ UNCHANGED << pc, timetable, assignments_made, other_days, ri >>
                   ELSE IF i # 0
                   THEN \E lab_room \in SeqToSet(CommonLabs(timetable, day, i)) :
                        /\ timetable' = WriteLab(timetable, e.semester, e.division, day, i,
                                                 e.subject, e.faculty, lab_room)
                        /\ assignments_made' = assignments_made + 1
                        /\ di' = di + 1
                        /\ UNCHANGED << pc, other_days, ri >>
                   ELSE IF assignments_made < e.lectures_per_week
                   THEN /\ pc' = "lab_retry"
                        /\ other_days' = SelectSeq(WorkingDayList,
                                             LAMBDA d : d \notin SeqToSet(target_days))
                        /\ ri' = 1
                        /\ UNCHANGED << timetable, assignments_made, di >>
                   ELSE /\ di' = di + 1
                        /\ UNCHANGED << pc, timetable, assignments_made, other_days, ri >>
            /\ UNCHANGED entry
    /\ UNCHANGED << subject_entries, target_semester, target_division,
                    max_lectures_per_day, target_days >>
    /\ UNCHANGED << cfgVars, histVars, current_timetable, conflicts_tree, last_call, probe >>

\* first pass, one iteration of the retry loop over the days outside target_days
LabRetryDay ==
    /\ pc = "lab_retry"
    /\ IF ri > Len(other_days)
       THEN /\ pc' = "lab_day"
            /\ di' = di + 1
            /\ other_days' = <<>>
            /\ ri' = 0
            /\ UNCHANGED << timetable, assignments_made >>
       ELSE LET e == subject_entries[entry]
                day == other_days[ri]
                i == IF DayRejected(timetable, e.faculty, day, max_lectures_per_day) THEN 0
                     ELSE FirstLabPair(timetable, e.semester, e.division, day, e.faculty)
            IN  /\ IF i # 0
                   THEN \E lab_room \in SeqToSet(CommonLabs(timetable, day, i)) :
                        /\ timetable' = WriteLab(timetable, e.semester, e.division, day, i,
                                                 e.subject, e.faculty, lab_room)
                        /\ assignments_made' = assignments_made + 1
                   ELSE UNCHANGED << timetable, assignments_made >>
                /\ ri' = ri + 1
                /\ UNCHANGED << pc, di, other_days >>
    /\ UNCHANGED << subject_entries, target_semester, target_division, entry,
                    max_lectures_per_day, target_days >>
    /\ UNCHANGED << cfgVars, histVars, current_timetable, conflicts_tree, last_call, probe >>

\* second pass, one iteration of the loop over subject_entries up to the loop over
\* working_days
TheorySubject ==
    /\ pc = "theory"
    /\ IF entry > Len(subject_entries)
       THEN /\ pc' = "finish"
            /\ UNCHANGED << entry, max_lectures_per_day, assignments_made, target_days, di >>
       ELSE IF FilteredOut(subject_entries[entry]) \/ subject_entries[entry].type # "Theory"
       THEN /\ entry' = entry + 1
            /\ UNCHANGED << pc, max_lectures_per_day, assignments_made, target_days, di >>
       ELSE /\ pc' = "theory_day"
            /\ max_lectures_per_day' = DailyCap(subject_entries[entry].faculty)
            /\ assignments_made' = 0
            /\ target_days' = WorkingDayList
            /\ di' = 1
            /\ UNCHANGED entry
    /\ UNCHANGED << timetable, subject_entries, target_semester, target_division,
                    other_days, ri >>
    /\ UNCHANGED << cfgVars, histVars, current_timetable, conflicts_tree, last_call, probe >>

\* second pass, one iteration of the loop over working_days
TheoryDay ==
    /\ pc = "theory_day"
    /\ IF di > Len(target_days) \/ assignments_made >= subject_entries[entry].lectures_per_week
       THEN /\ pc' = "theory"
            /\ entry' = entry + 1
            /\ UNCHANGED << timetable, assignments_made, di >>
       ELSE /\ time_slots # <<>>
            /\ LET e == subject_entries[entry]
                   day == target_days[di]
                   all_slots == CandidateSlots(timetable, e.semester, e.division, e.subject)
                   n == IF DayRejected(timetable, e.faculty, day, max_lectures_per_day) THEN 0
                        ELSE FirstTheorySlot(timetable, e.semester, e.division, day,
                                             all_slots, e.faculty)
               IN  /\ IF n # 0
                      THEN \E classroom \in SeqToSet(find_available_rooms(
                                                timetable, day, all_slots[n], "classroom")) :
                           /\ timetable' = WriteTheory(timetable, e.semester, e.division, day,
                                              all_slots[n], e.subject, e.faculty, classroom)
                           /\ assignments_made' = assignments_made + 1
                      ELSE UNCHANGED << timetable, assignments_made >>
                   /\ di' = di + 1
            /\ UNCHANGED << pc, entry >>
    /\ UNCHANGED << subject_entries, target_semester, target_division,
                    max_lectures_per_day, target_days, other_days, ri >>
    /\ UNCHANGED << cfgVars, histVars, current_timetable, conflicts_tree, last_call, probe >>

\* the semesters of a timetable
Semesters(tt) == {tt.grid[i][1] : i \in 1..Len(tt.grid)}

\* display_timetable raises KeyError for a selected semester the timetable lacks
DisplayFails == target_semester # 0 /\ target_semester \notin Semesters(timetable)

\* variant of Raises: the record of the faculty is read before the test that the
\* directory holds one, so a faculty without a record raises KeyError
Raises_UnknownFaculty ==
    \/ /\ pc = "lab_day"
       /\ di <= Len(target_days)
       /\ \/ time_slots = <<>>
          \/ subject_entries[entry].faculty \notin DOMAIN faculties
    \/ /\ pc = "theory_day"
       /\ di <= Len(target_days)
       /\ assignments_made < subject_entries[entry].lectures_per_week
       /\ \/ time_slots = <<>>
          \/ subject_entries[entry].faculty \notin DOMAIN faculties
    \/ pc = "finish" /\ DisplayFails

\* the places where generate_timetable raises: self.time_slots[0] on an empty grid
\* (IndexError) when a day is processed, and the display of a missing semester
Raises ==
    \/ pc = "lab_day" /\ di <= Len(target_days) /\ time_slots = <<>>
    \/ /\ pc = "theory_day"
       /\ di <= Len(target_days)
       /\ assignments_made < subject_entries[entry].lectures_per_week
       /\ time_slots = <<>>
    \/ pc = "finish" /\ DisplayFails

\* variant of GenerateError: the schedule is stored before it is displayed, so
\* a failed call leaves the schedule it was building as the current one
GenerateError_StoredBeforeDisplay ==
    /\ Raises
    /\ Return
    /\ last_call' = "generate_timetable:error"
    /\ current_timetable' = timetable
    /\ UNCHANGED << cfgVars, histVars, conflicts_tree, probe >>

\* the except branch of generate_timetable: the error is reported and the call
\* returns without storing a timetable
GenerateError ==
    /\ Raises
    /\ Return
    /\ last_call' = "generate_timetable:error"
    /\ UNCHANGED << cfgVars, histVars, current_timetable, conflicts_tree, probe >>

\* the end of generate_timetable: display, store, check conflicts, refresh analytics
GenerateFinish ==
    /\ pc = "finish"
    /\ ~DisplayFails
    /\ current_timetable' = timetable
    /\ conflicts_tree' = refresh_analytics(
                            check_timetable_conflicts(conflicts_tree, timetable), timetable)
    /\ Return
    /\ last_call' = "generate_timetable"
    /\ UNCHANGED << cfgVars, histVars, probe >>

(***************************************************************************)
(* The other handlers that read or replace the current timetable.          *)
(***************************************************************************)
\* most rows the conflicts tree holds before Tools > Check Conflicts is no
\* longer followed
MaxRows == 24

\* the (semester, division) pairs of the timetables read by load_timetable
LoadedGrid == << <<2, "A">>, <<2, "B">>, <<4, "A">> >>

\* a timetable as pickle.load may return it: generated earlier with all six days
\* and the first two slots of the default grid; faculty[g] (None for none)
\* teaches a two-slot session of (semester, division) g on Monday and on
\* Saturday, in room[g]
LoadedTimetable(faculty, room) ==
    LET slots == Prefix(DefaultTimeSlots, 2)
    IN  [ grid |-> LoadedGrid,
          cell |-> [k \in { <<LoadedGrid[g][1], LoadedGrid[g][2], day, ts>> :
                              g \in 1..Len(LoadedGrid), day \in DaySet,
                              ts \in SeqToSet(slots) } |->
                      LET g == CHOOSE g \in 1..Len(LoadedGrid) :
                                  LoadedGrid[g] = <<k[1], k[2]>>
                      IN  IF k[3] \in {"Monday", "Saturday"} /\ faculty[g] # None
                          THEN Session(IF k[4] = slots[1] THEN "SQL" ELSE Cont("SQL"),
                                       faculty[g], room[g])
                          ELSE EmptyCell] ]

LoadedTimetables ==
    { LoadedTimetable(f, r) :
        f \in { <<"PG", None, None>>, <<"PG", "PG", None>>, <<"PG", "PG", "PG">>,
                <<"PG", "EB", "PG">>, <<"EB", "EB", "EB">>, <<None, None, None>> },
        r \in { <<"Lab-6", "Lab-6", "Lab-6">>, <<"Lab-6", "Lab-7", "Lab-8">> } }

\* load_timetable: the file's timetable becomes current and analytics are refreshed
LoadTimetable ==
    /\ pc = "idle"
    /\ \E tt \in LoadedTimetables :
        /\ current_timetable' = tt
        /\ conflicts_tree' = refresh_analytics(conflicts_tree, tt)
    /\ last_call' = "load_timetable"
    /\ UNCHANGED << cfgVars, histVars, runVars, probe >>

\* Tools > Check Conflicts: check_timetable_conflicts alone
CheckConflicts ==
    /\ pc = "idle"
    /\ Len(conflicts_tree) <= MaxRows
    /\ conflicts_tree' = check_timetable_conflicts(conflicts_tree, current_timetable)
    /\ last_call' = "check_timetable_conflicts"
    /\ UNCHANGED << cfgVars, histVars, current_timetable, runVars, probe >>

\* View > Refresh Analytics
RefreshAnalytics ==
    /\ pc = "idle"
    /\ conflicts_tree' = refresh_analytics(conflicts_tree, current_timetable)
    /\ last_call' = "refresh_analytics"
    /\ UNCHANGED << cfgVars, histVars, current_timetable, runVars, probe >>

(***************************************************************************)
(* Undo history: new_timetable, optimize_timetable, undo_action,           *)
(* redo_action.  An exception of a menu command ends the command where it  *)
(* is raised; the assignments made before it stay.                         *)
(***************************************************************************)
\* self.settings of __init__
settings ==
    [ theme_color |-> "#4a7abc", auto_save |-> FALSE,
      auto_save_path |-> "~/timetable_autosave.pkl", default_export_format |-> "excel" ]

\* the last n elements of a list, list[-n:]
LastItems(list, n) ==
    IF n = 0 \/ n >= Len(list) THEN list ELSE SubSeq(list, Len(list) - n + 1, Len(list))

\* add_to_history: the attributes after the call and whether it raised
\* (AttributeError for an attribute that was never assigned, KeyError for the
\* missing setting)
add_to_history(h, position, tt) ==
    IF ~Truthy(tt)
    THEN [raised |-> FALSE, history |-> h, history_position |-> position]
    ELSE IF ~position.defined \/ ~h.defined
    THEN [raised |-> TRUE, history |-> h, history_position |-> position]
    ELSE LET truncated == IF position.value < Len(h.value) - 1
                          THEN Prefix(h.value, Max(0, position.value + 1))
                          ELSE h.value
             appended == Append(truncated, tt)
         IN  IF "max_undo_steps" \notin DOMAIN settings
             THEN [raised |-> TRUE,
                   history |-> [defined |-> TRUE, value |-> appended],
                   history_position |-> position]
             ELSE LET limited == IF Len(appended) > settings["max_undo_steps"]
                                 THEN LastItems(appended, settings["max_undo_steps"])
                                 ELSE appended
                  IN  [raised |-> FALSE,
                       history |-> [defined |-> TRUE, value |-> limited],
                       history_position |-> [defined |-> TRUE, value |-> Len(limited) - 1]]

\* File > New Timetable; confirm is the answer to the question
NewTimetable ==
    /\ pc = "idle"
    /\ \E confirm \in BOOLEAN :
          IF Truthy(current_timetable)
          THEN IF confirm
               THEN LET r == add_to_history(history, history_position, current_timetable)
                    IN  /\ history' = r.history
                        /\ history_position' = r.history_position
                        /\ IF r.raised
                           THEN /\ last_call' = "new_timetable:error"
                                /\ UNCHANGED current_timetable
                           ELSE /\ last_call' = "new_timetable"
                                /\ current_timetable' = NoTimetable
               ELSE /\ last_call' = "new_timetable:declined"
                    /\ UNCHANGED << current_timetable, histVars >>
          ELSE /\ last_call' = "new_timetable"
               /\ UNCHANGED << current_timetable, histVars >>
    /\ UNCHANGED << cfgVars, conflicts_tree, runVars, probe >>

\* Tools > Optimize Timetable
OptimizeTimetable ==
    /\ pc = "idle"
    /\ IF ~Truthy(current_timetable)
       THEN /\ last_call' = "optimize_timetable:warning"
            /\ UNCHANGED << conflicts_tree, histVars >>
       ELSE LET r == add_to_history(history, history_position, current_timetable)
            IN  /\ history' = r.history
                /\ history_position' = r.history_position
                /\ IF r.raised
                   THEN /\ last_call' = "optimize_timetable:error"
                        /\ UNCHANGED conflicts_tree
                   ELSE /\ last_call' = "optimize_timetable"
                        /\ conflicts_tree' = refresh_analytics(conflicts_tree, current_timetable)
    /\ UNCHANGED << cfgVars, current_timetable, runVars, probe >>

\* list[index] of Python is defined for -len <= index < len
Indexable(list, index) == 0 - Len(list) <= index /\ index < Len(list)

ItemAt(list, index) == IF index >= 0 THEN list[index + 1] ELSE list[Len(list) + index + 1]

\* Edit > Undo
UndoAction ==
    /\ pc = "idle"
    /\ IF ~history_position.defined
       THEN /\ last_call' = "undo_action:error"
            /\ UNCHANGED << current_timetable, histVars >>
       ELSE IF history_position.value > 0
       THEN /\ history_position' = [history_position EXCEPT !.value = @ - 1]
            /\ UNCHANGED history
            /\ IF history.defined /\ Indexable(history.value, history_position.value - 1)
               THEN /\ current_timetable' = ItemAt(history.value, history_position.value - 1)
                    /\ last_call' = "undo_action"
               ELSE /\ last_call' = "undo_action:error"
                    /\ UNCHANGED current_timetable
       ELSE /\ last_call' = "undo_action:nothing"
            /\ UNCHANGED << current_timetable, histVars >>
    /\ UNCHANGED << cfgVars, conflicts_tree, runVars, probe >>

\* Edit > Redo
RedoAction ==
    /\ pc = "idle"
    /\ IF ~history_position.defined \/ ~history.defined
       THEN /\ last_call' = "redo_action:error"
            /\ UNCHANGED << current_timetable, histVars >>
       ELSE IF history_position.value < Len(history.value) - 1
       THEN /\ history_position' = [history_position EXCEPT !.value = @ + 1]
            /\ UNCHANGED history
            /\ IF Indexable(history.value, history_position.value + 1)
               THEN /\ current_timetable' = ItemAt(history.value, history_position.value + 1)
                    /\ last_call' = "redo_action"
               ELSE /\ last_call' = "redo_action:error"
                    /\ UNCHANGED current_timetable
       ELSE /\ last_call' = "redo_action:nothing"
            /\ UNCHANGED << current_timetable, histVars >>
    /\ UNCHANGED << cfgVars, conflicts_tree, runVars, probe >>

(***************************************************************************)
(* Calls of the pure functions.                                            *)
(***************************************************************************)
NoProbe == [fn |-> "", args |-> <<>>, ret |-> <<>>]

ProbeAvailability ==
    /\ \E faculty \in DOMAIN faculties \cup {"PJ"}, day \in DaySet,
          time_slot \in SeqToSet(time_slots) :
        probe' = [ fn |-> "check_faculty_availability",
                   args |-> <<faculty, day, time_slot>>,
                   ret |-> check_faculty_availability(faculty, day, time_slot) ]
    /\ UNCHANGED << cfgVars, histVars, current_timetable, conflicts_tree, last_call, runVars >>

ProbeWeeklyLoad ==
    /\ probe' = [ fn |-> "calculate_weekly_load", args |-> <<>>,
                  ret |-> calculate_weekly_load ]
    /\ UNCHANGED << cfgVars, histVars, current_timetable, conflicts_tree, last_call, runVars >>

(***************************************************************************)
(* Initial states.                                                         *)
(***************************************************************************)
\* one entry of self.subjects[semester][division]: subject -> (hours, faculty, type)
Entry(semester, division, subject, hours, faculty, type) ==
    [ semester |-> semester, division |-> division, subject |-> subject,
      hours |-> hours, faculty |-> faculty, type |-> type ]

\* a faculty teaching in two divisions and a second semester
CatalogShared ==
    << Entry(2, "A", "ADV-C-P", 24, "EB", "Lab"),
       Entry(2, "A", "ADV-C-T", 36, "EB", "Theory"),
       Entry(2, "B", "ADV-C-P", 24, "EB", "Lab"),
       Entry(4, "A", "OS", 12, "PG", "Theory") >>

\* one lab subject that needs two weekly sessions
CatalogOneLab == << Entry(2, "A", "SQL", 24, "EB", "Lab") >>

\* EB carries 217 hours, PG exactly 216
CatalogLoaded ==
    << Entry(2, "A", "WDT-P", 24, "EB", "Lab"),
       Entry(2, "A", "DBMS-T", 193, "EB", "Theory"),
       Entry(2, "B", "DBMS-T", 108, "PG", "Theory"),
       Entry(4, "A", "OS", 108, "PG", "Theory") >>

\* PJ is named by a subject and has no record, as in load_default_data
CatalogDangling ==
    << Entry(2, "A", "CS", 18, "EB", "Theory"),
       Entry(2, "A", "SDWT-P", 24, "PJ", "Lab"),
       Entry(2, "B", "AOH", 12, "DAA", "Theory") >>

\* a catalog that is not in the order of the passes; EM works on three days only
CatalogPartTime ==
    << Entry(2, "A", "OS", 12, "PG", "Theory"),
       Entry(2, "A", "NET-P", 24, "EM", "Lab"),
       Entry(2, "A", "JAVA", 36, "EB", "Theory"),
       Entry(2, "B", "NET-P", 36, "EM", "Lab"),
       Entry(2, "B", "OS", 12, "PG", "Theory") >>

\* three lab subjects of one faculty in three (semester, division) pairs, two
\* weekly sessions each
CatalogCrowded ==
    << Entry(2, "A", "NET-P", 24, "EB", "Lab"),
       Entry(2, "B", "NET-P", 24, "EB", "Lab"),
       Entry(4, "A", "WDT-P", 24, "EB", "Lab"),
       Entry(4, "A", "OS", 12, "PG", "Theory") >>

DayFlags(set) == [d \in DaySet |-> d \in set]

\* an attribute that __init__ does not assign
NoAttribute(value) == [defined |-> FALSE, value |-> value]

NothingDone ==
    /\ current_timetable = NoTimetable
    /\ conflicts_tree = <<>>
    /\ last_call = ""
    /\ history = NoAttribute(<<>>)
    /\ history_position = NoAttribute(0)
    /\ IdleRun
    /\ probe = NoProbe

DefaultConfig ==
    /\ subjects = CatalogShared
    /\ faculties = DefaultFaculties
    /\ time_slots = DefaultTimeSlots
    /\ classrooms = DefaultClassrooms
    /\ labs = DefaultLabs
    /\ working_days = DayFlags(DaySet)
    /\ max_faculty_lectures = 4
    /\ semester_duration = 11
    /\ timetable_semester = ""
    /\ timetable_division = "All"

\* the engine under every combination of catalog, working days, grid, cap and filter
Init ==
    /\ subjects \in {CatalogShared, CatalogOneLab, CatalogLoaded, CatalogDangling,
                     CatalogPartTime}
    /\ faculties = DefaultFaculties
    /\ time_slots \in {Prefix(DefaultTimeSlots, MaxSlots), <<>>}
    /\ classrooms = DefaultClassrooms
    /\ labs = DefaultLabs
    /\ working_days \in {DayFlags(DaySet), DayFlags({"Monday", "Tuesday"}), DayFlags({})}
    /\ max_faculty_lectures \in {1, 4, 6}
    /\ semester_duration = 11
    /\ timetable_semester \in {"", "2", "6"}
    /\ timetable_division \in {"All", "B"}
    /\ NothingDone

Next ==
    \/ GenerateStart
    \/ LabSubject
    \/ LabDay
    \/ LabRetryDay
    \/ TheorySubject
    \/ TheoryDay
    \/ GenerateError
    \/ GenerateFinish

Spec == Init /\ [][Next]_vars

\* the engine on a catalog of lab subjects that compete for one faculty and one
\* lab room, on a grid with two disjoint pairs of adjacent slots
InitLabs ==
    /\ subjects = CatalogCrowded
    /\ faculties = DefaultFaculties
    /\ time_slots \in {Prefix(DefaultTimeSlots, MaxSlots + 1), <<>>}
    /\ classrooms = DefaultClassrooms
    /\ labs = <<"Lab-6">>
    /\ working_days \in { DayFlags({"Monday", "Tuesday", "Wednesday"}),
                          DayFlags(DaySet \ {"Saturday"}) }
    /\ max_faculty_lectures \in {4, 6}
    /\ semester_duration = 11
    /\ timetable_semester \in {"", "6"}
    /\ timetable_division = "All"
    /\ NothingDone

SpecLabs == InitLabs /\ [][Next]_vars

\* the whole application on fewer configurations: generation, loading, the two
\* menu entries that scan for conflicts
InitApp ==
    /\ subjects \in {CatalogShared, CatalogLoaded}
    /\ faculties = DefaultFaculties
    /\ time_slots = Prefix(DefaultTimeSlots, MaxSlots)
    /\ classrooms = DefaultClassrooms
    /\ labs = DefaultLabs
    /\ working_days \in {DayFlags({"Monday", "Saturday"}), DayFlags({"Monday", "Tuesday"})}
    /\ max_faculty_lectures \in {1, 4, 6}
    /\ semester_duration = 11
    /\ timetable_semester \in {"", "6"}
    /\ timetable_division = "All"
    /\ NothingDone

NextApp ==
    \/ Next
    \/ LoadTimetable
    \/ CheckConflicts
    \/ RefreshAnalytics

SpecApp == InitApp /\ [][NextApp]_vars

\* the application with the commands of the File, Edit and Tools menus that
\* use the undo history
InitHistory ==
    /\ subjects = CatalogShared
    /\ faculties = DefaultFaculties
    /\ time_slots = Prefix(DefaultTimeSlots, MaxSlots)
    /\ classrooms = DefaultClassrooms
    /\ labs = DefaultLabs
    /\ working_days = DayFlags({"Monday", "Tuesday"})
    /\ max_faculty_lectures = 4
    /\ semester_duration = 11
    /\ timetable_semester \in {"", "6"}
    /\ timetable_division = "All"
    /\ NothingDone

NextHistory ==
    \/ Next
    \/ LoadTimetable
    \/ NewTimetable
    \/ OptimizeTimetable
    \/ UndoAction
    \/ RedoAction

SpecHistory == InitHistory /\ [][NextHistory]_vars

\* most total hours of a subject in the calls of calculate_weekly_load
MaxHours == 60

\* calls of check_faculty_availability on the default directory and grid
InitAvailability ==
    /\ DefaultConfig
    /\ NothingDone

SpecAvailability == InitAvailability /\ [][ProbeAvailability]_vars

\* calls of calculate_weekly_load for every total and every term length the
\* spinbox offers
InitWeeklyLoad ==
    /\ \E hours \in 0..MaxHours, type \in {"Theory", "Lab"} :
          subjects = << Entry(2, "A", "SQL", hours, "PG", type) >>
    /\ faculties = DefaultFaculties
    /\ time_slots = DefaultTimeSlots
    /\ classrooms = DefaultClassrooms
    /\ labs = DefaultLabs
    /\ working_days = DayFlags(DaySet)
    /\ max_faculty_lectures = 4
    /\ semester_duration \in 8..16
    /\ timetable_semester = ""
    /\ timetable_division = "All"
    /\ NothingDone

SpecWeeklyLoad == InitWeeklyLoad /\ [][ProbeWeeklyLoad]_vars

\* the days of the schedules passed to get_preferred_slots
PreferredDays == {"Monday", "Tuesday"}

\* schedules of one (semester, division) over two days and the grid, every cell
\* empty or holding a session of SQL or of OS
PreferredInputs ==
    LET keys == { <<2, "A", day, ts>> : day \in PreferredDays, ts \in SeqToSet(time_slots) }
    IN  { [grid |-> << <<2, "A">> >>, cell |-> c] :
            c \in [keys -> { EmptyCell, Session("SQL", "EB", "101"),
                             Session("OS", "PG", "207") }] }

\* a call of get_preferred_slots, as at line 2662, for SQL of (2, A) on the
\* schedule under construction
ProbePreferredSlots ==
    /\ probe = NoProbe
    /\ probe' = [ fn |-> "get_preferred_slots",
                  args |-> <<timetable, 2, "A", "SQL">>,
                  ret |-> get_preferred_slots(timetable, 2, "A", "SQL") ]
    /\ UNCHANGED << cfgVars, histVars, current_timetable, conflicts_tree, last_call, runVars >>

\* calls of get_preferred_slots on the first slots of the default grid
InitPreferred ==
    /\ subjects = CatalogOneLab
    /\ faculties = DefaultFaculties
    /\ time_slots = Prefix(DefaultTimeSlots, MaxSlots)
    /\ classrooms = DefaultClassrooms
    /\ labs = DefaultLabs
    /\ working_days = DayFlags(DaySet)
    /\ max_faculty_lectures = 4
    /\ semester_duration = 11
    /\ timetable_semester = ""
    /\ timetable_division = "All"
    /\ current_timetable = NoTimetable
    /\ conflicts_tree = <<>>
    /\ last_call = ""
    /\ history = NoAttribute(<<>>)
    /\ history_position = NoAttribute(0)
    /\ probe = NoProbe
    /\ pc = "idle"
    /\ timetable \in PreferredInputs
    /\ subject_entries = <<>>
    /\ target_semester = 0
    /\ target_division = None
    /\ entry = 0
    /\ max_lectures_per_day = 0
    /\ assignments_made = 0
    /\ target_days = <<>>
    /\ di = 0
    /\ other_days = <<>>
    /\ ri = 0

SpecPreferred == InitPreferred /\ [][ProbePreferredSlots]_vars

(***************************************************************************)
(* Properties.                                                             *)
(***************************************************************************)
\* a run of generate_timetable has just stored its schedule in current_timetable
Generated == pc = "idle" /\ last_call = "generate_timetable"

\* the cells of a (day, time_slot) whose field names the value
Naming(tt, field, value, day, time_slot) ==
    {k \in DOMAIN tt.cell : k[3] = day /\ k[4] = time_slot /\ tt.cell[k][field] = value}

\* the texts the cells of a schedule hold in a field
Named(tt, field) == {tt.cell[k][field] : k \in DOMAIN tt.cell} \ {None, ""}

\* at most one cell of any (day, time_slot) names the same value in the field
AtMostOnce(tt, field) ==
    \A value \in Named(tt, field) : \A k \in DOMAIN tt.cell :
        Cardinality(Naming(tt, field, value, k[3], k[4])) <= 1

LabPairDays(tt, semester, division, subject) ==
    { day \in DaySet : \E i \in 1..(Len(time_slots) - 1) :
        /\ HasCell(tt, semester, division, day, time_slots[i])
        /\ HasCell(tt, semester, division, day, time_slots[i + 1])
        /\ tt.cell[<<semester, division, day, time_slots[i]>>].subject = subject
        /\ tt.cell[<<semester, division, day, time_slots[i + 1]>>].subject = Cont(subject) }

\* the selection on the timetable tab leaves out no entry of (2, "A")
SelectsDivisionA ==
    \/ timetable_semester = ""
    \/ timetable_semester = "2" /\ timetable_division = "All"

\* C5: a single Lab subject that needs k weekly sessions, k not above the number
\* of working days, with its faculty free on every working day and free lab
\* rooms, ends on exactly k days with a pair of adjacent cells (subject,
\* continuation) in its (semester, division)
C5_LabSessionsPlaced ==
    ( /\ Generated
      /\ subjects = CatalogOneLab
      /\ SelectsDivisionA
      /\ Len(time_slots) >= 2
      /\ lectures_per_week(subjects[1].hours, semester_duration) <= Len(WorkingDayList) )
    => Cardinality(LabPairDays(current_timetable, 2, "A", subjects[1].subject))
          = lectures_per_week(subjects[1].hours, semester_duration)

RECURSIVE Num(_)
\* the number a sequence of decimal digits writes
Num(ds) == IF ds = <<>> THEN 0 ELSE 10 * Num(Prefix(ds, Len(ds) - 1)) + (ds[Len(ds)] - Digit(0))

\* the minutes since midnight a time text "H:MM" or "HH:MM" denotes
ClockMinutes(text) ==
    LET c == CHOOSE i \in 1..Len(text) : text[i] = Colon
    IN  60 * Num(SubSeq(text, 1, c - 1)) + Num(SubSeq(text, c + 1, Len(text)))

\* C6: check_faculty_availability is false when the faculty has no record, the
\* day is not one of its working days, or the slot starts before the faculty's
\* start or ends after the faculty's end by the 24-hour clock, and true otherwise
C6_AvailabilityByClock ==
    probe.fn = "check_faculty_availability" =>
        LET faculty == probe.args[1]
            day == probe.args[2]
            time_slot == probe.args[3]
        IN  probe.ret =
              ( /\ faculty \in DOMAIN faculties
                /\ day \in faculties[faculty].days
                /\ ClockMinutes(time_slot.start) >= ClockMinutes(faculties[faculty].start)
                /\ ClockMinutes(time_slot.end) <= ClockMinutes(faculties[faculty].end) )

\* n is the integer nearest to a / b, the even one of the two when a / b lies
\* halfway between two integers
NearestEven(n, a, b) ==
    LET twice == 2 * (n * b - a)
    IN  /\ twice <= b /\ 0 - twice <= b
        /\ (twice = b \/ 0 - twice = b) => n % 2 = 0

\* C7: calculate_weekly_load gives every subject
\* lectures_per_week = max(1, round(total_hours / semester_duration)), never
\* below 1; 36 hours over 11 weeks give 3 and 12 hours over 11 weeks give 1
C7_WeeklyLoad ==
    probe.fn = "calculate_weekly_load" =>
        \A i \in 1..Len(subjects) :
            LET got == probe.ret[i].lectures_per_week
                hours == subjects[i].hours
            IN  /\ got >= 1
                /\ \E n \in 0..(hours + 1) :
                      /\ NearestEven(n, hours, semester_duration)
                      /\ got = IF n >= 1 THEN n ELSE 1
                /\ (hours = 36 /\ semester_duration = 11) => got = 3
                /\ (hours = 12 /\ semester_duration = 11) => got = 1

\* the weekly load of a subject of 36 hours over 11 weeks was computed, and is 3
C7_Witness ==
    /\ probe.fn = "calculate_weekly_load"
    /\ subjects[1].hours = 36
    /\ semester_duration = 11
    /\ probe.ret[1].lectures_per_week = 3

RECURSIVE HoursOver(_)
\* the total hours of a set of catalog entries, given by their indices
HoursOver(S) ==
    IF S = {} THEN 0
    ELSE LET i == CHOOSE i \in S : TRUE IN subjects[i].hours + HoursOver(S \ {i})

\* the sum of the total hours of the subjects assigned to a faculty
TotalHours(faculty) == HoursOver({i \in 1..Len(subjects) : subjects[i].faculty = faculty})

\* the daily cap of a faculty as the specification states it
StatedCap(faculty) == IF TotalHours(faculty) > 216 THEN 5 ELSE max_faculty_lectures

\* a subject is being placed by one of the two passes
Placing == pc \in {"lab_day", "lab_retry", "theory_day"}

\* C8: the daily cap used for a faculty in both passes and in the overload check
\* is 5 when the total hours of its subjects exceed 216 and the configured
\* maximum otherwise
C8_DailyCap ==
    /\ Placing => max_lectures_per_day = StatedCap(subject_entries[entry].faculty)
    /\ \A i \in 1..Len(conflicts_tree) :
          conflicts_tree[i].type = "Faculty Overload" =>
              /\ conflicts_tree[i].details[4] = StatedCap(conflicts_tree[i].details[1])
              /\ conflicts_tree[i].details[2] > StatedCap(conflicts_tree[i].details[1])

\* the theory pass places a subject of PG, whose load is exactly 216, under the
\* configured cap, while the tree holds an overload row for EB (217 hours)
\* under the cap 5
C8_Witness ==
    /\ pc = "theory_day"
    /\ subject_entries[entry].faculty = "PG"
    /\ TotalHours("PG") = 216
    /\ max_faculty_lectures = 4
    /\ max_lectures_per_day = 4
    /\ \E i \in 1..Len(conflicts_tree) :
          /\ conflicts_tree[i].type = "Faculty Overload"
          /\ conflicts_tree[i].details[1] = "EB"
          /\ conflicts_tree[i].details[4] = 5

\* C9: a faculty whose total load is above 216 hours has a daily cap exactly one
\* greater than the configured cap, for every configured value
C9_CapOneAboveConfigured ==
    (Placing /\ TotalHours(subject_entries[entry].faculty) > 216)
        => max_lectures_per_day = max_faculty_lectures + 1

\* the cells of a (day, time_slot) that name the faculty
CellsNaming(tt, faculty, day, time_slot) == Naming(tt, "faculty", faculty, day, time_slot)

\* the number of rows of a tree that report the faculty double-booked at
\* (day, time_slot), and how many of them have severity High
DoubleBookings(tree, faculty, day, time_slot) ==
    Cardinality({i \in 1..Len(tree) :
        /\ tree[i].type = "Faculty Double-Booking"
        /\ tree[i].details = <<"Faculty", faculty, day, time_slot>>})

HighDoubleBookings(tree, faculty, day, time_slot) ==
    Cardinality({i \in 1..Len(tree) :
        /\ tree[i].type = "Faculty Double-Booking"
        /\ tree[i].details = <<"Faculty", faculty, day, time_slot>>
        /\ tree[i].severity = "High"})

\* one call of check_timetable_conflicts adds n - 1 rows of severity High for a
\* faculty named by n > 1 cells of (day, time_slot), and none otherwise
EmitsExcess(faculty, day, time_slot) ==
    LET n == Cardinality(CellsNaming(current_timetable, faculty, day, time_slot))
        excess == IF n > 1 THEN n - 1 ELSE 0
    IN  /\ DoubleBookings(conflicts_tree', faculty, day, time_slot)
              = DoubleBookings(conflicts_tree, faculty, day, time_slot) + excess
        /\ HighDoubleBookings(conflicts_tree', faculty, day, time_slot)
              = HighDoubleBookings(conflicts_tree, faculty, day, time_slot) + excess

\* the (day, time_slot) pairs of the cells of a schedule
DaySlots(tt) == {<<k[3], k[4]>> : k \in DOMAIN tt.cell}

\* C10 as stated: one call of check_timetable_conflicts emits, for every (day,
\* slot) of the schedule and every faculty named by n > 1 cells, exactly n - 1
\* Faculty Double-Booking rows of severity High, and none where n <= 1
C10_EveryDay ==
    [][ CheckConflicts =>
          \A ds \in DaySlots(current_timetable) :
          \A faculty \in Named(current_timetable, "faculty") \cup DOMAIN faculties :
              EmitsExcess(faculty, ds[1], ds[2]) ]_vars

\* C10 amended: the same for every enabled working day and every slot of the
\* grid; the days that are not enabled are not scanned
C10_WorkingDays ==
    [][ CheckConflicts =>
          \A ds \in DaySlots(current_timetable) :
          \A faculty \in Named(current_timetable, "faculty") \cup DOMAIN faculties :
              (working_days[ds[1]] /\ ds[2] \in SeqToSet(time_slots))
                  => EmitsExcess(faculty, ds[1], ds[2]) ]_vars

\* Tools > Check Conflicts has run on a timetable in which two cells of Monday's
\* first slot name PG: the tree holds the row of the scan made when the
\* timetable was loaded and the one row this call added
C10_Witness ==
    /\ last_call = "check_timetable_conflicts"
    /\ Cardinality(CellsNaming(current_timetable, "PG", "Monday", DefaultTimeSlots[1])) = 2
    /\ DoubleBookings(conflicts_tree, "PG", "Monday", DefaultTimeSlots[1]) = 2
    /\ HighDoubleBookings(conflicts_tree, "PG", "Monday", DefaultTimeSlots[1]) = 2

\* the number of cells of a day, over all semesters, divisions and slots, that
\* name the faculty
CellsOfDayNaming(tt, faculty, day) ==
    Cardinality({k \in DOMAIN tt.cell : k[3] = day /\ tt.cell[k].faculty = faculty})

\* the number of rows of a tree that report the faculty overloaded on the day,
\* and how many of them have severity Medium
Overloads(tree, faculty, day) ==
    Cardinality({i \in 1..Len(tree) :
        /\ tree[i].type = "Faculty Overload"
        /\ tree[i].details[1] = faculty
        /\ tree[i].details[3] = day})

MediumOverloads(tree, faculty, day) ==
    Cardinality({i \in 1..Len(tree) :
        /\ tree[i].type = "Faculty Overload"
        /\ tree[i].details[1] = faculty
        /\ tree[i].details[3] = day
        /\ tree[i].severity = "Medium"})

\* one call of check_timetable_conflicts adds one row of severity Medium for
\* (day, faculty) when the cells of the day naming the faculty exceed its daily
\* cap, and none otherwise
EmitsOverload(faculty, day) ==
    LET n == CellsOfDayNaming(current_timetable, faculty, day)
        due == IF n > StatedCap(faculty) THEN 1 ELSE 0
    IN  /\ Overloads(conflicts_tree', faculty, day)
              = Overloads(conflicts_tree, faculty, day) + due
        /\ MediumOverloads(conflicts_tree', faculty, day)
              = MediumOverloads(conflicts_tree, faculty, day) + due

SemesterSelectable ==
    IntOf(timetable_semester) # 0 =>
        \E i \in 1..Len(subjects) : subjects[i].semester = IntOf(timetable_semester)

\* the cells of a schedule that hold a session
Occupied(tt) == {k \in DOMAIN tt.cell : tt.cell[k] # EmptyCell}

\* the number of sessions of catalog entry i in a schedule: the cells of its
\* (semester, division) that hold its subject (a lab pair counts once, the
\* continuation cell has its own label)
Placed(tt, i) ==
    Cardinality({k \in DOMAIN tt.cell :
        /\ k[1] = subjects[i].semester
        /\ k[2] = subjects[i].division
        /\ tt.cell[k].subject = subjects[i].subject})

\* C12: with a slot grid and a selectable semester, a run of generate_timetable
\* whose placements cannot be made (faculty without a record or not available,
\* no cell that takes a session) never ends in the error report; at its end it
\* stores the schedule, whose cells are empty or hold a session of the catalog,
\* as the current timetable; and at every position of the run a next step other
\* than the error report exists
C12_UnsatisfiableCompletes ==
    /\ []((time_slots # <<>> /\ SemesterSelectable)
            => last_call # "generate_timetable:error")
    /\ [][(pc = "finish" /\ pc' = "idle" /\ time_slots # <<>> /\ SemesterSelectable)
            => /\ current_timetable' = timetable
               /\ \A k \in DOMAIN timetable.cell :
                     \/ current_timetable'.cell[k] = EmptyCell
                     \/ \E i \in 1..Len(subjects) :
                           /\ k[1] = subjects[i].semester
                           /\ k[2] = subjects[i].division
                           /\ current_timetable'.cell[k].subject
                                 \in {subjects[i].subject, Cont(subjects[i].subject)}
                           /\ current_timetable'.cell[k].faculty = subjects[i].faculty]_vars
    /\ []((pc # "idle" /\ time_slots # <<>> /\ SemesterSelectable)
            => ENABLED (Next /\ last_call' # "generate_timetable:error"))

\* a run has ended and stored its schedule for a catalog with a subject whose
\* faculty has no record and one whose faculty does not work on Monday: no
\* session was placed and every cell is empty
C12_Witness ==
    /\ Generated
    /\ subjects = CatalogDangling
    /\ time_slots # <<>>
    /\ working_days = DayFlags(DaySet)
    /\ Truthy(current_timetable)
    /\ Occupied(current_timetable) = {}
    /\ \A i \in 1..Len(subjects) : Placed(current_timetable, i) = 0

\* the entries of the catalog that a run takes up: the division selection counts
\* only together with a semester
TakenUp(i) ==
    /\ IntOf(timetable_semester) # 0 => subjects[i].semester = IntOf(timetable_semester)
    /\ (IntOf(timetable_semester) # 0 /\ timetable_division # "All"
           /\ TruthyText(timetable_division))
          => subjects[i].division = timetable_division

\* C13: a run of generate_timetable does not end by storing a schedule when no
\* time slot is defined, when no working day is enabled, or when a subject it
\* is to schedule names a faculty without a record in the directory
C13_MissingConfigurationAborts ==
    Generated =>
        /\ time_slots # <<>>
        /\ WorkingDayList # <<>>
        /\ \A i \in 1..Len(subjects) :
              TakenUp(i) => subjects[i].faculty \in DOMAIN faculties

\* a row of the conflicts tree whose details name the text: the texts of a
\* double-booking row are its kind and the faculty or room, the text of an
\* overload row is the faculty
RowNames(row, text) ==
    IF row.type = "Faculty Overload"
    THEN row.details[1] = text
    ELSE row.details[1] = text \/ row.details[2] = text

\* C14: after a run in which a subject it took up received fewer placements than
\* its weekly session count, the conflict records produced after the run
\* contain a record for that subject
C14_ShortfallReported ==
    Generated =>
        \A i \in 1..Len(subjects) :
            ( /\ TakenUp(i)
              /\ Placed(current_timetable, i)
                    < lectures_per_week(subjects[i].hours, semester_duration) )
            => \E r \in 1..Len(conflicts_tree) :
                   RowNames(conflicts_tree[r], subjects[i].subject)

\* a (semester, division) lies in the selection of the timetable tab: no
\* semester selected or the selected one, division All or the selected one
InSelection(semester, division) ==
    /\ timetable_semester = "" \/ semester = IntOf(timetable_semester)
    /\ timetable_division = "All" \/ division = timetable_division

\* a cell holds a session: the subject of a catalog entry, or its continuation,
\* with the faculty of that entry
HoldsSession(cell) ==
    \E i \in 1..Len(subjects) :
        /\ cell.subject \in {subjects[i].subject, Cont(subjects[i].subject)}
        /\ cell.faculty = subjects[i].faculty

\* no cell of a (semester, division) outside the selection holds a session
OutsideSelectionEmpty(tt) ==
    \A k \in DOMAIN tt.cell : ~InSelection(k[1], k[2]) => ~HoldsSession(tt.cell[k])

RequiredKeys ==
    { <<subjects[i].semester, subjects[i].division, day, ts>> :
        i \in 1..Len(subjects),
        day \in {d \in DaySet : working_days[d]},
        ts \in SeqToSet(time_slots) }

\* a cell without subject, faculty and room
Unset(cell) == cell.subject = None /\ cell.faculty = None /\ cell.room = None

\* C16: before the first placement of a run the schedule holds exactly one cell,
\* empty, for every (semester, division) of the catalog, every enabled working
\* day and every slot of the grid; the set of cell keys stays the same during
\* the run and in the schedule it stores, with or without a filter
C16_FullyPopulated ==
    /\ (pc = "lab" /\ entry = 1) =>
          /\ DOMAIN timetable.cell = RequiredKeys
          /\ \A k \in DOMAIN timetable.cell : Unset(timetable.cell[k])
    /\ pc # "idle" => DOMAIN timetable.cell = RequiredKeys
    /\ Generated => DOMAIN current_timetable.cell = RequiredKeys

\* a run restricted to semester 2, division B has stored its schedule for a
\* catalog with the pairs (2, A) and (2, B), six working days and the grid: the
\* schedule holds the cells of both pairs
C16_Witness ==
    /\ Generated
    /\ subjects = CatalogDangling
    /\ timetable_semester = "2"
    /\ timetable_division = "B"
    /\ working_days = DayFlags(DaySet)
    /\ Cardinality(DOMAIN current_timetable.cell) = 2 * 6 * MaxSlots
    /\ Cardinality(RequiredKeys) = 2 * 6 * MaxSlots

\* the position in the catalog of an entry of subject_entries
CatalogIndex(e) ==
    CHOOSE i \in 1..Len(subjects) :
        /\ subjects[i].semester = e.semester
        /\ subjects[i].division = e.division
        /\ subjects[i].subject = e.subject

\* entries of one type stand in non-increasing order of weekly session count,
\* those with equal counts in catalog order
OrderedWithinPass(entries) ==
    \A a, b \in 1..Len(entries) :
        (a < b /\ entries[a].type = entries[b].type) =>
            /\ entries[a].lectures_per_week >= entries[b].lectures_per_week
            /\ entries[a].lectures_per_week = entries[b].lectures_per_week
                  => CatalogIndex(entries[a]) < CatalogIndex(entries[b])

LabPass == pc \in {"lab", "lab_day", "lab_retry"}

TheoryPass == pc \in {"theory", "theory_day", "finish"}

OpenPair(tt, e, day) ==
    \E i \in 1..(Len(time_slots) - 1) :
        /\ HasCell(tt, e.semester, e.division, day, time_slots[i])
        /\ HasCell(tt, e.semester, e.division, day, time_slots[i + 1])
        /\ ~HoldsSession(tt.cell[<<e.semester, e.division, day, time_slots[i]>>])
        /\ ~HoldsSession(tt.cell[<<e.semester, e.division, day, time_slots[i + 1]>>])
        /\ ~check_faculty_conflict(tt, e.faculty, day, time_slots[i])
        /\ ~check_faculty_conflict(tt, e.faculty, day, time_slots[i + 1])
        /\ CommonLabs(tt, day, i) # <<>>

\* the lab pass is done with the subject at subject_entries[entry]
LabSubjectDone == pc = "lab_day" /\ di > Len(target_days)

\* C18: when the lab pass is done with a Lab subject and fewer pairs than its
\* weekly session count were placed, no working day outside the sampled days is
\* left that passes the per-day check, has a pair of adjacent slots open for the
\* subject, and did not receive a session of it
C18_RetryRemainingDays ==
    LabSubjectDone =>
        LET e == subject_entries[entry]
        IN  assignments_made < e.lectures_per_week =>
                \A day \in SeqToSet(WorkingDayList) \ SeqToSet(target_days) :
                    ( /\ ~DayRejected(timetable, e.faculty, day, max_lectures_per_day)
                      /\ OpenPair(timetable, e, day) )
                    => day \in LabPairDays(timetable, e.semester, e.division, e.subject)

\* the number of sessions of catalog entry i on a day of a schedule, and the
\* number of continuation cells of it
PlacedOn(tt, i, day) ==
    Cardinality({k \in DOMAIN tt.cell :
        /\ k[1] = subjects[i].semester
        /\ k[2] = subjects[i].division
        /\ k[3] = day
        /\ tt.cell[k].subject = subjects[i].subject})

ContinuedOn(tt, i, day) ==
    Cardinality({k \in DOMAIN tt.cell :
        /\ k[1] = subjects[i].semester
        /\ k[2] = subjects[i].division
        /\ k[3] = day
        /\ tt.cell[k].subject = Cont(subjects[i].subject)})

\* no subject has more sessions in the schedule than its weekly session count
WithinWeeklyCount(tt) ==
    \A i \in 1..Len(subjects) :
        Placed(tt, i) <= lectures_per_week(subjects[i].hours, semester_duration)

OncePerDay(tt) ==
    \A i \in 1..Len(subjects) : \A day \in DaySet :
        PlacedOn(tt, i, day) <= 1 /\ ContinuedOn(tt, i, day) <= 1

DaysAt(tt, semester, division, subject, ts) ==
    Cardinality({day \in DaySet :
        /\ HasCell(tt, semester, division, day, ts)
        /\ tt.cell[<<semester, division, day, ts>>].subject = subject})

\* the position of a slot in the grid
GridPosition(ts) == CHOOSE n \in 1..Len(time_slots) : time_slots[n] = ts

\* the first encounter of the subject at a slot when the days are scanned from
\* Monday to Saturday and the slots of a day in grid order: <<day, position>>
FirstMet(tt, semester, division, subject, ts) ==
    LET d == CHOOSE d \in 1..Len(Days) :
                /\ HasCell(tt, semester, division, Days[d], ts)
                /\ tt.cell[<<semester, division, Days[d], ts>>].subject = subject
                /\ \A c \in 1..(d - 1) :
                      ~( /\ HasCell(tt, semester, division, Days[c], ts)
                         /\ tt.cell[<<semester, division, Days[c], ts>>].subject = subject )
    IN  <<d, GridPosition(ts)>>

\* the result holds exactly the slots at which the subject appears, each once,
\* in descending order of the number of days
ByFrequency(ret, tt, semester, division, subject) ==
    /\ SeqToSet(ret) = {ts \in SeqToSet(time_slots) :
                           DaysAt(tt, semester, division, subject, ts) > 0}
    /\ \A a, b \in 1..Len(ret) : a # b => ret[a] # ret[b]
    /\ \A a, b \in 1..Len(ret) :
          a < b => DaysAt(tt, semester, division, subject, ret[a])
                      >= DaysAt(tt, semester, division, subject, ret[b])

OpenSlot(tt, e, day, ts) ==
    /\ HasCell(tt, e.semester, e.division, day, ts)
    /\ ~HoldsSession(tt.cell[<<e.semester, e.division, day, ts>>])
    /\ ~check_faculty_conflict(tt, e.faculty, day, ts)
    /\ find_available_rooms(tt, day, ts, "classroom") # <<>>

\* C22: on a day that passes the availability and the cap tests, the theory pass
\* writes the session into the first open slot of the candidate order (preferred
\* slots, then the others in grid order) and into no other cell; with no open
\* slot it writes nothing
C22_FirstOpenSlotTaken ==
    [][ ( /\ pc = "theory_day"
          /\ di <= Len(target_days)
          /\ assignments_made < subject_entries[entry].lectures_per_week
          /\ time_slots # <<>>
          /\ ~DayRejected(timetable, subject_entries[entry].faculty, target_days[di],
                          max_lectures_per_day) )
        => LET e == subject_entries[entry]
               day == target_days[di]
               all_slots == CandidateSlots(timetable, e.semester, e.division, e.subject)
               open == {n \in 1..Len(all_slots) : OpenSlot(timetable, e, day, all_slots[n])}
           IN  IF open = {}
               THEN timetable' = timetable
               ELSE LET n == CHOOSE n \in open : \A m \in open : n <= m
                        k == <<e.semester, e.division, day, all_slots[n]>>
                    IN  /\ timetable'.cell[k].subject = e.subject
                        /\ timetable'.cell[k].faculty = e.faculty
                        /\ timetable'.cell[k].room \in SeqToSet(classrooms)
                        /\ \A o \in DOMAIN timetable.cell \ {k} :
                              timetable'.cell[o] = timetable.cell[o] ]_vars

\* the faculties named by the catalog
CatalogFaculties == {subjects[i].faculty : i \in 1..Len(subjects)}

\* no faculty of the catalog is named on a day by more cells of the schedule
\* than its daily cap
WithinDailyCap(tt) ==
    \A faculty \in CatalogFaculties : \A day \in DaySet :
        CellsOfDayNaming(tt, faculty, day) <= StatedCap(faculty)

C27_ReportIsOneScan ==
    pc = "idle" =>
        conflicts_tree = IF Truthy(current_timetable)
                         THEN ConflictRows(current_timetable)
                         ELSE <<>>

\* C29: no step of a call of generate_timetable changes current_timetable,
\* except the last step of a call that reports success, which stores the
\* schedule built by the two finished passes; so a call that ends by reporting
\* an error leaves current_timetable as it was before the call
C29_StoredOnlyOnSuccess ==
    [][ /\ ( \/ pc' # "idle"
             \/ pc # "idle" /\ last_call' = "generate_timetable:error" )
           => current_timetable' = current_timetable
        /\ (pc # "idle" /\ current_timetable' # current_timetable)
           => /\ pc = "finish"
              /\ entry > Len(subject_entries)
              /\ last_call' = "generate_timetable"
              /\ current_timetable' = timetable ]_vars

\* generate_timetable reported an error while a loaded timetable with sessions
\* was current, and that timetable is still the current one
C29_Witness ==
    /\ pc = "idle"
    /\ last_call = "generate_timetable:error"
    /\ current_timetable \in LoadedTimetables
    /\ Occupied(current_timetable) # {}

\* the outcomes of the commands that use the undo history when they fail
HistoryFailures ==
    { "new_timetable:error", "optimize_timetable:error",
      "undo_action:error", "redo_action:error" }

\* C24: after any sequence of pushes (add_to_history, made by New Timetable and
\* Optimize Timetable), undo_action and redo_action from start-up, none of them
\* has failed, the history holds at most max_undo_steps snapshots, and while it
\* is not empty 0 <= history_position < len(history)
C24_HistoryWellFormed ==
    /\ last_call \notin HistoryFailures
    /\ history.defined =>
          /\ "max_undo_steps" \in DOMAIN settings
          /\ Len(history.value) <= settings["max_undo_steps"]
          /\ history.value # <<>> =>
                /\ history_position.defined
                /\ 0 <= history_position.value
                /\ history_position.value < Len(history.value)

\* a step of a command that pushes a snapshot of a current timetable
Pushes ==
    /\ pc = "idle"
    /\ pc' = "idle"
    /\ Truthy(current_timetable)
    /\ last_call' \in { "new_timetable", "new_timetable:error",
                        "optimize_timetable", "optimize_timetable:error" }

\* a step of redo_action
Redoes ==
    /\ pc = "idle"
    /\ pc' = "idle"
    /\ last_call' \in {"redo_action", "redo_action:nothing", "redo_action:error"}

\* C25: a push leaves no snapshot after the cursor, and a redo that follows a
\* push directly changes nothing and reports that there is nothing to redo
C25_PushDiscardsRedo ==
    [][ /\ Pushes =>
              /\ history'.defined
              /\ history_position'.defined
              /\ history_position'.value = Len(history'.value) - 1
        /\ ( /\ Redoes
             /\ last_call \in { "new_timetable", "new_timetable:error",
                                "optimize_timetable", "optimize_timetable:error" } )
           => /\ last_call' = "redo_action:nothing"
              /\ UNCHANGED << current_timetable, histVars >> ]_vars

\* C30: a confirmed New Timetable over a current timetable T clears
\* current_timetable and keeps T as the snapshot at the cursor, and an undo that
\* follows it directly succeeds and makes a timetable current again
C30_NewThenUndoRestores ==
    [][ /\ ( /\ pc = "idle"
             /\ pc' = "idle"
             /\ Truthy(current_timetable)
             /\ last_call' \in {"new_timetable", "new_timetable:error"} )
           => /\ current_timetable' = NoTimetable
              /\ history'.defined
              /\ history_position'.defined
              /\ Indexable(history'.value, history_position'.value)
              /\ ItemAt(history'.value, history_position'.value) = current_timetable
        /\ ( /\ pc = "idle"
             /\ pc' = "idle"
             /\ last_call = "new_timetable"
             /\ history.defined
             /\ last_call' \in {"undo_action", "undo_action:nothing", "undo_action:error"} )
           => /\ last_call' = "undo_action"
              /\ Truthy(current_timetable') ]_vars
====
